---- MODULE Spec2Model ----
(***************************************************************************)
(* Model of python-agents/account-management-mcp/account_management_mcp.py *)
(* : the MCP server's SSE stream, its inbox endpoint, the JSON-RPC         *)
(* dispatcher and the slice of the tool layer the dispatcher reaches.      *)
(*                                                                         *)
(* JSON values are written as their JSON text ("0", "\"\"", "null").  The   *)
(* server runs on one asyncio event loop: a handler runs atomically from   *)
(* one await that really suspends to the next, so every action below is    *)
(* one such stretch of code.                                                *)
(***************************************************************************)
EXTENDS Integers, Sequences, FiniteSets, TLC

\* ------------------------------------------------------------------ bounds
\* Number of SSE connections accepted in one run (each gets a fresh uuid4).
MaxSessions == 2
\* Number of POST requests (inbox and notify-tools-refresh) in one run.
MaxRequests == 2
\* asyncio.Queue(maxsize=SESSION_QUEUE_MAX); 100 in the source, scaled down
\* so that a full queue is reachable.
SESSION_QUEUE_MAX == 2

SessionIds == 1..MaxSessions
ReqIds == 1..MaxRequests

\* ------------------------------------------------------- request domains
\* A member a JSON object does not have / a header that was not sent.
Absent == "<absent>"
\* Python None, JSON null.
None == "null"
MCP_PROTOCOL_VERSION == "2025-06-18"

\* get_allowed_origins() with SERVICE_URL and ALLOWED_ORIGINS unset.
ALLOWED_ORIGINS ==
  { "http://localhost:3000", "http://localhost", "http://127.0.0.1",
    "http://host.docker.internal:8200", "http://host.docker.internal:3000",
    "http://host.docker.internal" }

\* Origin header values tried; each is paired with origin.split("/", 3)[:3]
\* joined by "/", i.e. scheme and authority without the path.
OriginHeaders ==
  { [header |-> Absent,                        host |-> Absent],
    [header |-> "http://localhost/app/x",      host |-> "http://localhost"],
    [header |-> "http://evil.example",         host |-> "http://evil.example"] }

\* A check that lets every origin in.
check_origin_allowAll(origin) == TRUE

\* check_origin: TRUE when it returns, FALSE when it raises
\* HTTPException(403).  SERVICE_URL is unset, so the Cloud Run exemption
\* does not apply.
check_origin(origin) ==
  IF origin.header = Absent THEN TRUE
  ELSE origin.host \in ALLOWED_ORIGINS

\* Registry order of TOOL_REGISTRY.
TOOL_REGISTRY ==
  << "search_customer", "get_customer_profile", "get_active_products",
     "freeze_account", "unfreeze_account", "reset_password", "update_address",
     "get_banking_details", "search_by_swift_bic" >>

ToolNames == { TOOL_REGISTRY[i] : i \in 1..Len(TOOL_REGISTRY) }

\* The product ids of MOCK_PRODUCTS, which are also the keys of ACCOUNT_STATUS.
AccountIds ==
  { "CHK001", "CHK002", "CHK003", "CHK042", "CC001", "CC003", "CC042",
    "SAV001", "SAV003", "SAV042", "LON001", "MTG001", "MTG042" }

\* The keys of MOCK_CUSTOMERS.
CustomerIds == { "CUST001", "CUST002", "CUST003", "42" }

NoArguments ==
  [obj |-> FALSE, present |-> FALSE, account_id |-> Absent,
   customer_id |-> Absent, new_address |-> Absent, identifier |-> Absent]

\* `arguments` of a tools/call: absent, not an object (a truthy value such
\* as [1], which `arguments or {}` keeps), or an object with an account_id
\* member.
ArgumentValues ==
  { NoArguments,
    [NoArguments EXCEPT !.present = TRUE],
    [NoArguments EXCEPT !.present = TRUE, !.obj = TRUE, !.account_id = "CHK001"],
    [NoArguments EXCEPT !.present = TRUE, !.obj = TRUE, !.account_id = "NOPE999"] }

\* `arguments` for update_address: a customer of MOCK_CUSTOMERS or an
\* unknown one, with a new address.
AddressArguments ==
  { [NoArguments EXCEPT !.present = TRUE, !.obj = TRUE, !.customer_id = c,
                        !.new_address = "1 New St"] : c \in {"CUST001", "NOPE"} }

\* `arguments` for get_banking_details: a checking account, a credit card,
\* an unknown account.
BankingArguments ==
  { [NoArguments EXCEPT !.present = TRUE, !.obj = TRUE, !.account_id = a] :
      a \in {"CHK001", "CC001", "NOPE999"} }

\* `arguments` for search_customer: an account number, a SWIFT code, the
\* demo identifier, an unknown one, none.
IdentifierArguments ==
  { [NoArguments EXCEPT !.present = TRUE, !.obj = TRUE, !.identifier = i] :
      i \in {"ACC123456789", "BOFAUS3N", "42", "NOPE", Absent} }

\* `arguments` for get_customer_profile: a customer of MOCK_CUSTOMERS and
\* an id that is not a key of it.
ProfileArguments ==
  { [NoArguments EXCEPT !.present = TRUE, !.obj = TRUE, !.customer_id = c] :
      c \in {"CUST002", "CUST42"} }

\* JSON values of "name" that Python cannot hash (a list, an object).
UnhashableNames == { "[]" }

\* `params` of an envelope: absent, not an object, or an object.
NoParams ==
  [present |-> FALSE, obj |-> FALSE, protocolVersion |-> Absent,
   cursor |-> Absent, name |-> Absent, arguments |-> NoArguments]

ParamsValues ==
  { NoParams,
    [NoParams EXCEPT !.present = TRUE],
    [NoParams EXCEPT !.present = TRUE, !.obj = TRUE],
    [NoParams EXCEPT !.present = TRUE, !.obj = TRUE,
                     !.protocolVersion = "2024-11-05"],
    [NoParams EXCEPT !.present = TRUE, !.obj = TRUE,
                     !.protocolVersion = ""],
    [NoParams EXCEPT !.present = TRUE, !.obj = TRUE, !.cursor = "\"page2\""],
    [NoParams EXCEPT !.present = TRUE, !.obj = TRUE, !.cursor = "7"] }
  \cup
  { [NoParams EXCEPT !.present = TRUE, !.obj = TRUE, !.name = n, !.arguments = a] :
      n \in {"freeze_account", "unfreeze_account", "nope"}, a \in ArgumentValues }
  \cup
  { [NoParams EXCEPT !.present = TRUE, !.obj = TRUE, !.name = "update_address",
                     !.arguments = a] : a \in AddressArguments }
  \cup
  { [NoParams EXCEPT !.present = TRUE, !.obj = TRUE, !.name = "get_banking_details",
                     !.arguments = a] : a \in BankingArguments }
  \cup
  { [NoParams EXCEPT !.present = TRUE, !.obj = TRUE, !.name = "search_customer",
                     !.arguments = a] : a \in IdentifierArguments }
  \cup
  { [NoParams EXCEPT !.present = TRUE, !.obj = TRUE, !.name = "get_customer_profile",
                     !.arguments = a] : a \in ProfileArguments }
  \cup
  { [NoParams EXCEPT !.present = TRUE, !.obj = TRUE, !.name = n] : n \in UnhashableNames }

IdValues == { Absent, "null", "0", "\"\"" }

MethodValues ==
  { "initialize", "notifications/initialized", "ping", "tools/list",
    "tools/call", "resources/list" }

\* params that the method reads; the others are sent with params absent.
ParamsFor(method) ==
  CASE method = "initialize" ->
         { p \in ParamsValues : p.name = Absent /\ p.cursor = Absent }
    [] method = "tools/list" ->
         { p \in ParamsValues : p.name = Absent /\ p.protocolVersion = Absent }
    [] method = "tools/call" ->
         { p \in ParamsValues : p.protocolVersion = Absent /\ p.cursor = Absent }
    [] OTHER -> { NoParams, [NoParams EXCEPT !.present = TRUE] }

Envelopes ==
  UNION { { [id |-> i, method |-> m, params |-> p] : i \in IdValues, p \in ParamsFor(m) } :
          m \in MethodValues }

NoEnvelope == [id |-> Absent, method |-> Absent, params |-> NoParams]

\* The envelopes posted while several sessions and requests run side by
\* side: with and without an id, answered and unanswered, reading and
\* changing the dataset, result and error.
TransportEnvelopes ==
  { e \in Envelopes :
      \/ e.method = "ping" /\ e.params = NoParams
      \/ e.method = "notifications/initialized" /\ e.params = NoParams
                                                /\ e.id \in {Absent, "0"}
      \/ e.method = "tools/call" /\ e.params.name = "freeze_account"
                                 /\ e.params.arguments.account_id = "CHK001"
                                 /\ e.id \in {Absent, "0"} }

\* The envelopes posted while requests run side by side on the tool layer:
\* tools/list with and without a cursor, and tools/call that changes the
\* dataset, whose business rule fails or whose tool raises, with and
\* without an id.
ToolEnvelopes ==
  { e \in Envelopes :
      /\ e.method = "tools/list" /\ e.id = "0"
      /\ e.params.cursor \in {Absent, "7"} /\ (e.params.obj <=> e.params.present) }
  \cup
  { e \in Envelopes :
      /\ e.method = "tools/call" /\ e.params.obj
      /\ LET n == e.params.name
             a == e.params.arguments
         IN  \/ /\ n = "freeze_account" /\ a.account_id = "CHK001"
                /\ e.id \in {Absent, "0"}
             \/ /\ n = "unfreeze_account" /\ a.account_id = "CHK001" /\ e.id = "0"
             \/ /\ n = "freeze_account" /\ e.id = "0"
                /\ \/ a.account_id = "NOPE999"
                   \/ a.present /\ ~a.obj
             \/ /\ n = "update_address" /\ a.customer_id = "CUST001"
                /\ e.id \in {Absent, "0"}
             \/ /\ n = "update_address" /\ a.customer_id = "NOPE" /\ e.id = "0"
             \/ /\ n = "get_banking_details" /\ a.account_id = "CC001"
                /\ e.id = "0" }

\* What `await request.json()` makes of the body.
BodyKinds == { "unparsable", "nonobject", "object" }

\* The lookup without its default: an absent member is not told from None.
BodyGet_keepAbsent(member) == member

\* body.get(key) on the parsed body.
BodyGet(member) == IF member = Absent THEN None ELSE member

\* ------------------------------------------------------------ tool layer
\* The mutable dataset: d.acct is ACCOUNT_STATUS, d.prod is the "status"
\* field of the MOCK_PRODUCTS record with that product_id, d.cust is the
\* "address" field of each MOCK_CUSTOMERS record.
InitialStatus(a) == IF a = "CHK003" THEN "frozen" ELSE "active"

InitialAddress(c) ==
  CASE c = "CUST001" -> "123 Main St, New York, NY 10001"
    [] c = "CUST002" -> "456 Oak Ave, Los Angeles, CA 90210"
    [] OTHER         -> "789 Pine St, Chicago, IL 60601"

\* The "type" field of the MOCK_PRODUCTS record with that product_id.
ProductType(a) ==
  CASE a \in {"CHK001", "CHK002", "CHK003", "CHK042"} -> "checking_account"
    [] a \in {"SAV001", "SAV003", "SAV042"}           -> "savings_account"
    [] a \in {"CC001", "CC003", "CC042"}              -> "credit_card"
    [] a = "LON001"                                   -> "personal_loan"
    [] OTHER                                          -> "mortgage"

\* The key: value pairs of the MOCK_IDENTIFIERS dict display, in order.
IdentifierPairs ==
  << << "ACC123456789", "CUST001" >>, << "ACC987654321", "CUST002" >>,
     << "ACC555666777", "CUST003" >>, << "ACC555666778", "42" >>,
     << "****1234", "CUST001" >>, << "****5678", "CUST002" >>,
     << "****9012", "CUST003" >>,
     << "CHASUS33", "CUST001" >>, << "BOFAUS3N", "CUST002" >>,
     << "CITIUS33", "CUST003" >>, << "BOFAUS3N", "CUST42" >>,
     << "42", "42" >> >>

\* The dict a display evaluates to: of the pairs with one key the last
\* gives the value.
DictOf(pairs) ==
  [ k \in { pairs[i][1] : i \in DOMAIN pairs } |->
      LET at == { i \in DOMAIN pairs : pairs[i][1] = k }
          hi == CHOOSE i \in at : \A j \in at : j <= i
      IN  pairs[hi][2] ]

MOCK_IDENTIFIERS == DictOf(IdentifierPairs)

\* args.get("identifier", "")
ArgIdentifier(args) == IF args.identifier = Absent THEN "" ELSE args.identifier

\* args.get("customer_id", "") and args.get("new_address", "").
ArgCustomerId(args) == IF args.customer_id = Absent THEN "" ELSE args.customer_id

ArgNewAddress(args) == IF args.new_address = Absent THEN "" ELSE args.new_address

\* args.get("account_id", "") of the registry lambdas.
ArgAccountId(args) == IF args.account_id = Absent THEN "" ELSE args.account_id

\* What a tool function returns (the members the transport can tell apart).
ToolOut(success, action, error) ==
  [success |-> success, action |-> action, error |-> error, customer_id |-> ""]

\* A status change that writes the status table and not the product record.
SetStatus_tableOnly(account_id, status, action, d) ==
  IF account_id \notin DOMAIN d.acct
  THEN [out |-> ToolOut(FALSE, "", "Account not found"), d |-> d]
  ELSE [out |-> ToolOut(TRUE, action, ""),
        d |-> [d EXCEPT !.acct = [d.acct EXCEPT ![account_id] = status]]]

SetStatus(account_id, status, action, d) ==
  IF account_id \notin DOMAIN d.acct
  THEN [out |-> ToolOut(FALSE, "", "Account not found"), d |-> d]
  ELSE [out |-> ToolOut(TRUE, action, ""),
        d |-> [d EXCEPT !.acct = [d.acct EXCEPT ![account_id] = status],
                        !.prod = [a \in DOMAIN d.prod |->
                                    IF a = account_id THEN status ELSE d.prod[a]]]]

\* A freeze that writes back the data as it was at start-up with its one
\* change, as a tool would that read the data before a suspension.
freeze_account_onSnapshot(account_id, d) ==
  SetStatus(account_id, "frozen", "freeze",
            [acct |-> [a \in AccountIds |-> InitialStatus(a)],
             prod |-> [a \in AccountIds |-> InitialStatus(a)],
             cust |-> [c \in CustomerIds |-> InitialAddress(c)]])

freeze_account(account_id, d) == SetStatus(account_id, "frozen", "freeze", d)

unfreeze_account(account_id, d) == SetStatus(account_id, "active", "unfreeze", d)

update_address(customer_id, new_address, d) ==
  IF customer_id \notin DOMAIN d.cust
  THEN [out |-> ToolOut(FALSE, "", "Customer not found"), d |-> d]
  ELSE [out |-> ToolOut(TRUE, "address_update", ""),
        d |-> [d EXCEPT !.cust = [d.cust EXCEPT ![customer_id] = new_address]]]

get_banking_details(account_id, d) ==
  IF account_id \notin DOMAIN d.prod
  THEN [out |-> ToolOut(FALSE, "", "Account not found"), d |-> d]
  ELSE IF ProductType(account_id) \in {"checking_account", "savings_account"}
  THEN [out |-> ToolOut(TRUE, "banking_details", ""), d |-> d]
  ELSE [out |-> ToolOut(FALSE, "",
                        "Account type does not support international transfers"),
        d |-> d]

\* impl(arguments) for the tools the requests of this model name.
\* search_customer: MOCK_IDENTIFIERS.get(identifier); no value is truthy
\* only when the key is missing (every value is a non-empty string).
search_customer(identifier, d) ==
  IF identifier \notin DOMAIN MOCK_IDENTIFIERS
  THEN [out |-> ToolOut(FALSE, "", "Customer not found"), d |-> d]
  ELSE [out |-> [ToolOut(TRUE, "search", "") EXCEPT
                   !.customer_id = MOCK_IDENTIFIERS[identifier]],
        d |-> d]

\* get_customer_profile: MOCK_CUSTOMERS.get(customer_id)
get_customer_profile(customer_id, d) ==
  IF customer_id \notin DOMAIN d.cust
  THEN [out |-> ToolOut(FALSE, "", "Customer not found"), d |-> d]
  ELSE [out |-> [ToolOut(TRUE, "profile", "") EXCEPT !.customer_id = customer_id],
        d |-> d]

ToolImpl(name, args, d) ==
  CASE name = "freeze_account"   -> freeze_account(ArgAccountId(args), d)
    [] name = "unfreeze_account" -> unfreeze_account(ArgAccountId(args), d)
    [] name = "update_address" ->
         update_address(ArgCustomerId(args), ArgNewAddress(args), d)
    [] name = "get_banking_details" -> get_banking_details(ArgAccountId(args), d)
    [] name = "search_customer" -> search_customer(ArgIdentifier(args), d)
    [] name = "get_customer_profile" -> get_customer_profile(ArgCustomerId(args), d)

\* A wrapper that flags a tool's own failure as a protocol-level tool error.
mcp_tool_success_flagsFailure(out) ==
  [what |-> "tool", isError |-> ~out.success, success |-> out.success,
   text |-> IF out.success THEN out.action ELSE out.error, tools |-> << >>,
   customer_id |-> out.customer_id]

\* The `result` member of a tools/call response.
mcp_tool_success(out) ==
  [what |-> "tool", isError |-> FALSE, success |-> out.success,
   text |-> IF out.success THEN out.action ELSE out.error, tools |-> << >>,
   customer_id |-> out.customer_id]

\* A tool error that is not flagged as one.
mcp_tool_error_notFlagged(msg) ==
  [what |-> "tool", isError |-> FALSE, success |-> FALSE, text |-> msg,
   tools |-> << >>, customer_id |-> ""]

mcp_tool_error(msg) ==
  [what |-> "tool", isError |-> TRUE, success |-> FALSE, text |-> msg,
   tools |-> << >>, customer_id |-> ""]

\* str(name) inside the f-string of the unknown-tool message.
PyStr(v) == IF v = Absent THEN "None" ELSE v

\* The invocation without its try: the tool's exception leaves the function.
tools_call_result_noTry(name, arguments, d) ==
  IF name \notin ToolNames
  THEN [raised |-> "", result |-> mcp_tool_error("Unknown tool"), d |-> d]
  ELSE IF arguments.present /\ ~arguments.obj
       THEN [raised |-> "AttributeError", result |-> mcp_tool_error(""), d |-> d]
       ELSE LET r == ToolImpl(name, arguments, d)
            IN  [raised |-> "", result |-> mcp_tool_success(r.out), d |-> r.d]

\* `raised` is the exception that leaves tools_call_result ("": none): the
\* membership test on the registry hashes the name and is outside the try.
tools_call_result(name, arguments, d) ==
  IF name \in UnhashableNames
  THEN [raised |-> "TypeError", result |-> mcp_tool_error(""), d |-> d]
  ELSE IF name \notin ToolNames
  THEN [raised |-> "", result |-> mcp_tool_error("Unknown tool: " \o PyStr(name)), d |-> d]
  ELSE IF arguments.present /\ ~arguments.obj
       \* impl(arguments or {}) calls .get on a non-dict: caught by the try
       THEN [raised |-> "", result |-> mcp_tool_error("Tool execution failed"), d |-> d]
       ELSE LET r == ToolImpl(name, arguments, d)
            IN  [raised |-> "", result |-> mcp_tool_success(r.out), d |-> r.d]

\* ------------------------------------------------------------ dispatcher
PlainResult(what, text) ==
  [what |-> what, isError |-> FALSE, success |-> TRUE, text |-> text,
   tools |-> << >>, customer_id |-> ""]

\* A response that does not carry the request's id.
jrpc_result_noId(id_, result) ==
  [kind |-> "result", id |-> None, code |-> 0, result |-> result]

jrpc_result(id_, result) ==
  [kind |-> "result", id |-> id_, code |-> 0, result |-> result]

\* An error response that drops its data.
jrpc_error_noData(id_, code, msg, data) ==
  [kind |-> "error", id |-> id_, code |-> code,
   result |-> [what |-> msg, isError |-> TRUE, success |-> FALSE, text |-> "",
               tools |-> << >>, customer_id |-> ""]]

jrpc_error(id_, code, msg, data) ==
  [kind |-> "error", id |-> id_, code |-> code,
   result |-> [what |-> msg, isError |-> TRUE, success |-> FALSE, text |-> data,
               tools |-> << >>, customer_id |-> ""]]

\* handle_method returning None.
NoResponse ==
  [kind |-> "none", id |-> None, code |-> 0,
   result |-> [what |-> "", isError |-> FALSE, success |-> FALSE, text |-> "",
               tools |-> << >>, customer_id |-> ""]]

\* params as inbox hands it over: body.get("params", {}) is an object when
\* the member is absent.
IsDict(params) == ~params.present \/ params.obj

\* A catalog paged by the cursor: nothing after the first page.
tools_list_result_paged(cursor) ==
  IF cursor = Absent
  THEN [i \in 1..Len(TOOL_REGISTRY) |-> TOOL_REGISTRY[i]]
  ELSE << >>

\* The "tools" member of tools_list_result: the name of each entry of
\* TOOL_REGISTRY.items(), in its order; the cursor is not read.
tools_list_result(cursor) ==
  [i \in 1..Len(TOOL_REGISTRY) |-> TOOL_REGISTRY[i]]

\* An `or` that never takes its left operand.
PyOr_alwaysDefault(v, default) == default

\* `v or default` on the value of a dict.get: None (the member is absent
\* or null) and the empty string are falsy.
PyOr(v, default) == IF v \in {Absent, None, ""} THEN default ELSE v

\* An exception that leaves a function, in the place of its return value.
Raised(exc) ==
  [kind |-> "raised", id |-> None, code |-> 0,
   result |-> [what |-> exc, isError |-> TRUE, success |-> FALSE, text |-> "",
               tools |-> << >>, customer_id |-> ""]]

\* The try block of handle_method.  params.get(...) raises AttributeError
\* when params is not a dict.
handle_method_try(method, params, id_, d) ==
  CASE method = "initialize" ->
         IF IsDict(params)
         THEN [response |->
                 jrpc_result(id_, PlainResult("initialize",
                    PyOr(params.protocolVersion, MCP_PROTOCOL_VERSION))),
               d |-> d]
         ELSE [response |-> Raised("AttributeError"), d |-> d]
    [] method = "notifications/initialized" ->
         [response |-> NoResponse, d |-> d]
    [] method = "ping" ->
         [response |-> jrpc_result(id_, PlainResult("empty", "")), d |-> d]
    [] method = "tools/list" ->
         IF IsDict(params)
         THEN [response |->
                 jrpc_result(id_, [PlainResult("tools", "") EXCEPT
                                     !.tools = tools_list_result(params.cursor)]),
               d |-> d]
         ELSE [response |-> Raised("AttributeError"), d |-> d]
    [] method = "tools/call" ->
         IF IsDict(params)
         THEN LET r == tools_call_result(params.name, params.arguments, d)
              IN  IF r.raised # ""
                  THEN [response |-> Raised(r.raised), d |-> r.d]
                  ELSE [response |-> jrpc_result(id_, r.result), d |-> r.d]
         ELSE [response |-> Raised("AttributeError"), d |-> d]
    [] OTHER ->
         [response |-> jrpc_error(id_, -32601, "Method not found", method), d |-> d]

\* The dispatcher without its except clauses.
handle_method_noExcept(method, params, id_, d) ==
  handle_method_try(method, params, id_, d)

\* A dispatcher that does nothing for an envelope without an id.
handle_method_skipsNotifications(method, params, id_, d) ==
  LET t == handle_method_try(method, params, id_, d) IN
  IF id_ = None THEN [response |-> NoResponse, d |-> d]
  ELSE IF t.response.kind # "raised" THEN t
  ELSE IF t.response.result.what = "HTTPException"
  THEN [response |-> jrpc_error(id_, -32602, "http.detail", ""), d |-> t.d]
  ELSE [response |-> jrpc_error(id_, -32603, "Internal error", ""), d |-> t.d]

\* handle_method: the try block and its two except clauses.
handle_method(method, params, id_, d) ==
  LET t == handle_method_try(method, params, id_, d) IN
  IF t.response.kind # "raised" THEN t
  ELSE IF t.response.result.what = "HTTPException"
  THEN [response |-> jrpc_error(id_, -32602, "http.detail", ""), d |-> t.d]
  ELSE [response |-> jrpc_error(id_, -32603, "Internal error", ""), d |-> t.d]

\* ------------------------------------------------------------- transport
VARIABLES
  SESSIONS,              \* keys of the SESSIONS dict
  queue,                 \* the asyncio.Queue created for each session id
  sse,                   \* state of each session's event_generator
  nextSession,           \* number of session ids drawn so far
  emitted,               \* events each event_generator has yielded, in order
  enqLog,                \* items put on each queue, in order
  req,                   \* the POST requests: position and locals
  last,                  \* the most recently finished HTTP exchange
  ACCOUNT_STATUS,        \* the ACCOUNT_STATUS dict
  MOCK_PRODUCTS_status,  \* "status" of each MOCK_PRODUCTS record
  MOCK_CUSTOMERS_address, \* "address" of each MOCK_CUSTOMERS record
  os_environ,            \* SERVICE_URL and EXTERNAL_BASE_URL of the environment
  EXTERNAL_BASE_URL,     \* the module constant set at import
  upstream,              \* cors_proxy: the requests urlopen was called with
  proxy_last             \* cors_proxy: the most recently answered request

vars == << SESSIONS, queue, sse, nextSession, emitted, enqLog, req, last,
           ACCOUNT_STATUS, MOCK_PRODUCTS_status, MOCK_CUSTOMERS_address,
           os_environ, EXTERNAL_BASE_URL, upstream, proxy_last >>

\* The state of the CORS proxy, a process of its own.
cors_proxy == << upstream, proxy_last >>

\* No request answered yet.
NoProxyExchange ==
  [method |-> "", path |-> "", status |-> 0, handler |-> "", contacted |-> FALSE]

dataset == << ACCOUNT_STATUS, MOCK_PRODUCTS_status, MOCK_CUSTOMERS_address >>

\* What no handler assigns: the environment and the import-time constant.
process == << os_environ, EXTERNAL_BASE_URL >>

\* The values the two variables of the environment are given.
ServiceUrls == { Absent, "https://svc.run.example", "https://svc.run.example/" }

StaticUrls == { Absent, "https://static.example", "https://static.example/",
                "https://static.example//" }

Environments == [SERVICE_URL : ServiceUrls, EXTERNAL_BASE_URL : StaticUrls]

\* Neither variable set.
LocalEnvironment == [SERVICE_URL |-> Absent, EXTERNAL_BASE_URL |-> Absent]

\* u.endswith("/")
EndsWithSlash(u) == Len(u) > 0 /\ SubSeq(u, Len(u), Len(u)) = "/"

\* u if u.endswith("/") else u + "/"
WithSlash(u) == IF EndsWithSlash(u) THEN u ELSE u \o "/"

\* u.rstrip("/")
RECURSIVE rstrip(_)
rstrip(u) == IF EndsWithSlash(u) THEN rstrip(SubSeq(u, 1, Len(u) - 1)) ELSE u

\* get_external_base_url() in environment e, PORT unset.
get_external_base_url(e) ==
  IF e.SERVICE_URL # Absent THEN WithSlash(e.SERVICE_URL)
  ELSE IF e.EXTERNAL_BASE_URL # Absent THEN WithSlash(e.EXTERNAL_BASE_URL)
  ELSE "http://localhost:8200/"

\* The parts of a GET /sse request the base URL is derived from.
\* request.url.scheme is "http" and request.url.netloc is the Host header.
DirectRequest ==
  [forwarded_proto |-> Absent, forwarded_host |-> Absent,
   host |-> "localhost:8200", forwarded_prefix |-> Absent]

SseRequests ==
  { DirectRequest,
    [DirectRequest EXCEPT !.host = "host.docker.internal:9000"],
    [DirectRequest EXCEPT !.forwarded_proto = "https",
                          !.forwarded_host = "public.example"],
    [DirectRequest EXCEPT !.forwarded_proto = "https",
                          !.forwarded_host = "public.example",
                          !.forwarded_prefix = "/mcp/"],
    [DirectRequest EXCEPT !.host = "host.docker.internal:9000",
                          !.forwarded_prefix = "/mcp"] }

\* "host.docker.internal" in str(host), for the hosts of SseRequests.
IsDockerHost(host) == host = "host.docker.internal:9000"

\* The base URL built from the request alone (lines 125-137).
RequestDerivedBase(request) ==
  LET scheme == PyOr(request.forwarded_proto, "http")
      host   == PyOr(request.forwarded_host, request.host)
      prefix == IF request.forwarded_prefix = Absent
                THEN "" ELSE rstrip(request.forwarded_prefix)
      base   == IF IsDockerHost(host)
                THEN scheme \o "://host.docker.internal:8200/"
                ELSE scheme \o "://" \o host \o "/"
  IN  IF prefix = "" THEN base
      ELSE scheme \o "://" \o host \o prefix \o "/"

\* The static configuration before everything else.
external_base_url_staticFirst(request) ==
  IF os_environ.EXTERNAL_BASE_URL # Absent
  THEN rstrip(os_environ.EXTERNAL_BASE_URL) \o "/"
  ELSE IF os_environ.SERVICE_URL # Absent THEN WithSlash(os_environ.SERVICE_URL)
  ELSE RequestDerivedBase(request)

\* external_base_url(request)
external_base_url(request) ==
  IF os_environ.SERVICE_URL # Absent THEN WithSlash(os_environ.SERVICE_URL)
  ELSE IF EXTERNAL_BASE_URL # get_external_base_url(os_environ)
       THEN rstrip(EXTERNAL_BASE_URL) \o "/"
       ELSE RequestDerivedBase(request)

\* urljoin(base, "inbox/<session id>"); every base ends with "/".
InboxUrl(base, s) == [base |-> base, path |-> "inbox", session |-> s]

NoUrl == [base |-> "", path |-> "", session |-> 0]

\* The first item put with the tag of the later ones.
EndpointItem_asMessage(s, base) ==
  [event |-> "message", url |-> InboxUrl(base, s), payload |-> NoResponse, src |-> 0]

\* ("endpoint", inbox_abs); src names the request that produced an item
\* (0: the stream's own connect handler).
EndpointItem(s, base) ==
  [event |-> "endpoint", url |-> InboxUrl(base, s), payload |-> NoResponse, src |-> 0]

\* ("message", json.dumps(response))
MessageItem(response, r) ==
  [event |-> "message", url |-> NoUrl, payload |-> response, src |-> r]

\* The note sent as a request, with an id.
ListChangedNote_withId ==
  [kind |-> "notification", id |-> "0", code |-> 0,
   result |-> [what |-> "tools/list_changed", isError |-> FALSE,
               success |-> FALSE, text |-> "", tools |-> << >>, customer_id |-> ""]]

\* {"jsonrpc": "2.0", "method": "tools/list_changed"}
ListChangedNote ==
  [kind |-> "notification", id |-> Absent, code |-> 0,
   result |-> [what |-> "tools/list_changed", isError |-> FALSE,
               success |-> FALSE, text |-> "",
               tools |-> << >>, customer_id |-> ""]]

NoItem == [event |-> "", url |-> NoUrl, payload |-> NoResponse, src |-> 0]

NoOrigin == [header |-> Absent, host |-> Absent]

\* A request's position and the locals it still needs, with whether its
\* session was registered when the request arrived.  The Origin header is
\* not read again after check_origin, so it is not kept.
IdleSlot ==
  [pc |-> "idle", kind |-> "", session |-> 0, known |-> FALSE, body |-> "",
   env |-> NoEnvelope, item |-> NoItem]

DoneSlot == [IdleSlot EXCEPT !.pc = "done"]

NoExchange ==
  [kind |-> "", stage |-> "", r |-> 0, session |-> 0, origin |-> NoOrigin,
   known |-> FALSE, body |-> "", env |-> NoEnvelope, dispatched |-> FALSE,
   response |-> NoResponse, status |-> 0, code |-> 0, sessions |-> 0]

\* The record of a finished exchange: the handler (kind) and the stretch of
\* it that returned (stage), the request r and what it sent (session,
\* origin when the exchange ended at the checks, body, env), whether the
\* session was registered when the request arrived (known), whether
\* handle_method was called and what it returned, the HTTP status and the
\* JSON-RPC error code of the HTTP body (0: none); `sessions` is the member
\* of that name in the body of /healthz.
Exchange(kind, stage, r, s, origin, known, body, env, dispatched, response, status, code) ==
  [kind |-> kind, stage |-> stage, r |-> r, session |-> s, origin |-> origin,
   known |-> known, body |-> body, env |-> env, dispatched |-> dispatched,
   response |-> response, status |-> status, code |-> code, sessions |-> 0]

\* A queue that takes one item more than maxsize.
Full_oneMore(q) == Len(q) > SESSION_QUEUE_MAX

\* asyncio.Queue.full()
Full(q) == Len(q) >= SESSION_QUEUE_MAX

\* Requests are numbered in the order they arrive.
NextRequest(r) ==
  /\ req[r].pc = "idle"
  /\ \A o \in ReqIds : o < r => req[o].pc # "idle"

Init ==
  /\ SESSIONS = {}
  /\ queue = [s \in SessionIds |-> << >>]
  /\ sse = [s \in SessionIds |-> "none"]
  /\ nextSession = 0
  /\ emitted = [s \in SessionIds |-> << >>]
  /\ enqLog = [s \in SessionIds |-> << >>]
  /\ req = [r \in ReqIds |-> IdleSlot]
  /\ last = NoExchange
  /\ ACCOUNT_STATUS = [a \in AccountIds |-> InitialStatus(a)]
  /\ MOCK_PRODUCTS_status = [a \in AccountIds |-> InitialStatus(a)]
  /\ MOCK_CUSTOMERS_address = [c \in CustomerIds |-> InitialAddress(c)]
  /\ os_environ = LocalEnvironment
  /\ EXTERNAL_BASE_URL = get_external_base_url(os_environ)
  /\ upstream = {}
  /\ proxy_last = NoProxyExchange

\* A put on the queue of the first session, whichever was named.
Enqueue_onFirstQueue(s, item) ==
  /\ queue' = [queue EXCEPT ![1] = Append(@, item)]
  /\ enqLog' = [enqLog EXCEPT ![1] = Append(@, item)]

\* queue.put_nowait(item) on the queue of session s.
Enqueue(s, item) ==
  /\ queue' = [queue EXCEPT ![s] = Append(@, item)]
  /\ enqLog' = [enqLog EXCEPT ![s] = Append(@, item)]

\* GET /sse up to the return of the EventSourceResponse.
sse_stream(origin, request) ==
  /\ nextSession < MaxSessions
  /\ IF ~check_origin(origin)
     THEN /\ last' = Exchange("sse", "checks", 0, 0, origin, FALSE, "",
                              NoEnvelope, FALSE, NoResponse, 403, 0)
          /\ UNCHANGED << SESSIONS, queue, sse, nextSession, emitted, enqLog >>
     ELSE LET s == nextSession + 1 IN
          /\ nextSession' = s
          /\ SESSIONS' = SESSIONS \cup {s}
          /\ Enqueue(s, EndpointItem(s, external_base_url(request)))
          /\ sse' = [sse EXCEPT ![s] = "open"]
          /\ last' = Exchange("sse", "connect", 0, s, origin, TRUE, "",
                              NoEnvelope, FALSE, NoResponse, 200, 0)
          /\ UNCHANGED emitted
  /\ UNCHANGED << req, dataset, process, cors_proxy >>

\* A stream that takes the newest item instead of the oldest.
event_generator_lifo(s) ==
  /\ sse[s] = "open"
  /\ queue[s] # << >>
  /\ emitted' = [emitted EXCEPT ![s] = Append(@, queue[s][Len(queue[s])])]
  /\ queue' = [queue EXCEPT ![s] = SubSeq(@, 1, Len(@) - 1)]
  /\ UNCHANGED << SESSIONS, sse, nextSession, enqLog, req, last, dataset, process, cors_proxy >>

\* One turn of the loop of event_generator: queue.get() and the yield.
event_generator(s) ==
  /\ sse[s] = "open"
  /\ queue[s] # << >>
  /\ emitted' = [emitted EXCEPT ![s] = Append(@, Head(queue[s]))]
  /\ queue' = [queue EXCEPT ![s] = Tail(@)]
  /\ UNCHANGED << SESSIONS, sse, nextSession, enqLog, req, last, dataset, process, cors_proxy >>

\* A count of every session ever registered.
health_countsEveryConnect ==
  /\ last' = [Exchange("healthz", "health", 0, 0, NoOrigin, FALSE, "",
                       NoEnvelope, FALSE, NoResponse, 200, 0)
                EXCEPT !.sessions = nextSession]
  /\ UNCHANGED << SESSIONS, queue, sse, nextSession, emitted, enqLog, req, dataset, process, cors_proxy >>

\* GET /healthz: "sessions" is len(SESSIONS).
health ==
  /\ last' = [Exchange("healthz", "health", 0, 0, NoOrigin, FALSE, "",
                       NoEnvelope, FALSE, NoResponse, 200, 0)
                EXCEPT !.sessions = Cardinality(SESSIONS)]
  /\ UNCHANGED << SESSIONS, queue, sse, nextSession, emitted, enqLog, req, dataset, process, cors_proxy >>

\* A pop that empties the registry.
SessionsPop_clearsAll(registry, s) == [registry |-> {}, raised |-> FALSE]

\* SESSIONS.pop(session_id, None): the keys left, and whether it raises
\* KeyError (with a default it does not).
SessionsPop(registry, s) == [registry |-> registry \ {s}, raised |-> FALSE]

\* A stream that ends without its finally block.
event_generator_finally_keepsSession(s) ==
  /\ sse[s] = "open"
  /\ sse' = [sse EXCEPT ![s] = "closed"]
  /\ UNCHANGED << SESSIONS, queue, nextSession, emitted, enqLog, req, last, dataset, process, cors_proxy >>

\* The finally block of event_generator: the stream ends.
event_generator_finally(s) ==
  /\ sse[s] = "open"
  /\ sse' = [sse EXCEPT ![s] = "closed"]
  /\ ~SessionsPop(SESSIONS, s).raised
  /\ SESSIONS' = SessionsPop(SESSIONS, s).registry
  /\ UNCHANGED << queue, nextSession, emitted, enqLog, req, last, dataset, process, cors_proxy >>

\* The checks without the session lookup.
InboxGate_no404(origin, known) ==
  IF ~check_origin(origin) THEN 403 ELSE 0

\* The two checks in the other order: the session lookup, then the origin.
InboxGate_sessionFirst(origin, known) ==
  IF ~known THEN 404
  ELSE IF ~check_origin(origin) THEN 403
  ELSE 0

\* The first two checks of inbox: the HTTP status they raise, 0 when both
\* pass.
InboxGate(origin, known) ==
  IF ~check_origin(origin) THEN 403
  ELSE IF ~known THEN 404
  ELSE 0

\* The checks on the body without the isinstance test.
BodyGate_noShapeCheck(body) ==
  CASE body = "unparsable" -> [status |-> 400, code |-> -32700]
    [] OTHER               -> [status |-> 0, code |-> 0]

\* The two checks on the body: the HTTP status and JSON-RPC error code of
\* the early return, 0 when the body is an object.
BodyGate(body) ==
  CASE body = "unparsable" -> [status |-> 400, code |-> -32700]
    [] body = "nonobject"  -> [status |-> 400, code |-> -32600]
    [] OTHER               -> [status |-> 0, code |-> 0]

\* POST /inbox/{session_id} up to `await request.json()`.
inbox_checks(r, s, origin, body) ==
  LET known == s \in SESSIONS
      gate == InboxGate(origin, known)
  IN
  /\ NextRequest(r)
  /\ IF gate # 0
     THEN /\ req' = [req EXCEPT ![r] = DoneSlot]
          /\ last' = Exchange("inbox", "checks", r, s, origin, known, body,
                              NoEnvelope, FALSE, NoResponse, gate, 0)
     ELSE /\ req' = [req EXCEPT ![r] =
                       [IdleSlot EXCEPT !.pc = "reading", !.kind = "inbox",
                                        !.session = s, !.known = known,
                                        !.body = body]]
          /\ UNCHANGED last
  /\ UNCHANGED << SESSIONS, queue, sse, nextSession, emitted, enqLog, dataset, process, cors_proxy >>

\* The test that skips only the notifications.
NothingToSend_onlyNotification(is_notification, response) == is_notification

\* `if is_notification or response is None`: the POST returns 204 without
\* touching the queue.
NothingToSend(is_notification, response) ==
  is_notification \/ response = NoResponse

\* POST /inbox/{session_id} from the return of request.json() to the return
\* of the handler or to the await of a full queue's put().  env is the
\* object the body parses to.
inbox_dispatch(r, env) ==
  LET s == req[r].session
      body == req[r].body
      gate == BodyGate(body)
      msg_id == BodyGet(env.id)
      d == [acct |-> ACCOUNT_STATUS, prod |-> MOCK_PRODUCTS_status,
            cust |-> MOCK_CUSTOMERS_address]
      h == handle_method(env.method, env.params, msg_id, d)
      is_notification == msg_id = None
      item == MessageItem(h.response, r)
      Finish(dispatched, response, status, code) ==
        /\ req' = [req EXCEPT ![r] = DoneSlot]
        /\ last' = Exchange("inbox", "dispatch", r, s, NoOrigin, req[r].known,
                            body, env, dispatched, response, status, code)
  IN
  /\ req[r].pc = "reading"
  /\ IF gate.status # 0
     THEN /\ env = NoEnvelope
          /\ Finish(FALSE, NoResponse, gate.status, gate.code)
          /\ UNCHANGED << queue, enqLog, dataset >>
     ELSE /\ env # NoEnvelope
          /\ ACCOUNT_STATUS' = h.d.acct
          /\ MOCK_PRODUCTS_status' = h.d.prod
          /\ MOCK_CUSTOMERS_address' = h.d.cust
          /\ IF NothingToSend(is_notification, h.response)
             THEN /\ Finish(TRUE, h.response, 204, 0)
                  /\ UNCHANGED << queue, enqLog >>
             ELSE IF s \notin SESSIONS
             \* SESSIONS[session_id] raises KeyError, which no except clause
             \* of the handler names
             THEN /\ Finish(TRUE, h.response, 500, 0)
                  /\ UNCHANGED << queue, enqLog >>
             ELSE IF ~Full(queue[s])
             THEN /\ Enqueue(s, item)
                  /\ Finish(TRUE, h.response, 204, 0)
             \* Queue.put() waits for a free slot; it never raises
             \* QueueFull, so the except clause is not entered
             ELSE /\ req' = [req EXCEPT ![r] =
                               [@ EXCEPT !.pc = "putting", !.env = env, !.item = item]]
                  /\ UNCHANGED << queue, enqLog, last >>
  /\ UNCHANGED << SESSIONS, sse, nextSession, emitted, process, cors_proxy >>

\* POST /notify-tools-refresh/{session_id} up to the return or to the await
\* of a full queue's put().
notify_tools_refresh(r, s) ==
  LET item == MessageItem(ListChangedNote, r) IN
  /\ NextRequest(r)
  /\ IF s \notin SESSIONS
     THEN /\ req' = [req EXCEPT ![r] = DoneSlot]
          /\ last' = Exchange("notify", "checks", r, s, NoOrigin, FALSE, "",
                              NoEnvelope, FALSE, NoResponse, 404, 0)
          /\ UNCHANGED << queue, enqLog >>
     ELSE IF ~Full(queue[s])
     THEN /\ Enqueue(s, item)
          /\ req' = [req EXCEPT ![r] = DoneSlot]
          /\ last' = Exchange("notify", "put", r, s, NoOrigin, TRUE, "",
                              NoEnvelope, FALSE, NoResponse, 200, 0)
     ELSE /\ req' = [req EXCEPT ![r] =
                       [IdleSlot EXCEPT !.pc = "putting", !.kind = "notify",
                                        !.session = s, !.known = TRUE,
                                        !.item = item]]
          /\ UNCHANGED << queue, enqLog, last >>
  /\ UNCHANGED << SESSIONS, sse, nextSession, emitted, dataset, process, cors_proxy >>

\* A handler suspended in Queue.put() resumes once the queue has a free
\* slot, puts its item and returns.
queue_put_resume(r) ==
  LET s == req[r].session IN
  /\ req[r].pc = "putting"
  /\ ~Full(queue[s])
  /\ Enqueue(s, req[r].item)
  /\ req' = [req EXCEPT ![r] = DoneSlot]
  /\ last' = IF req[r].kind = "inbox"
             THEN Exchange("inbox", "resume", r, s, NoOrigin, req[r].known,
                           req[r].body, req[r].env, TRUE, req[r].item.payload,
                           204, 0)
             ELSE Exchange("notify", "resume", r, s, NoOrigin, TRUE, "",
                           NoEnvelope, FALSE, NoResponse, 200, 0)
  /\ UNCHANGED << SESSIONS, sse, nextSession, emitted, dataset, process, cors_proxy >>

\* Several sessions and requests side by side, posting TransportEnvelopes.
Next ==
  \/ \E origin \in OriginHeaders : sse_stream(origin, DirectRequest)
  \/ \E s \in SessionIds : event_generator(s)
  \/ \E s \in SessionIds : event_generator_finally(s)
  \/ \E r \in ReqIds, s \in SessionIds, origin \in OriginHeaders, body \in BodyKinds :
       inbox_checks(r, s, origin, body)
  \/ \E r \in ReqIds, env \in TransportEnvelopes \cup {NoEnvelope} : inbox_dispatch(r, env)
  \/ \E r \in ReqIds, s \in SessionIds : notify_tools_refresh(r, s)
  \/ \E r \in ReqIds : queue_put_resume(r)

Spec == Init /\ [][Next]_vars

\* The scheduling the event loop gives: a stream that stays connected keeps
\* taking items, a handler whose await has returned runs on, and a put()
\* that has a free slot completes.  Nothing obliges a client to connect,
\* to post or to stay connected.
Fairness ==
  /\ \A s \in SessionIds : WF_vars(event_generator(s))
  /\ \A r \in ReqIds : WF_vars(\E env \in TransportEnvelopes \cup {NoEnvelope} :
                                  inbox_dispatch(r, env))
  /\ \A r \in ReqIds : WF_vars(queue_put_resume(r))

LiveSpec == Spec /\ Fairness

\* The same with GET /healthz polled at any time.
NextHealth == Next \/ health

SpecHealth == Init /\ [][NextHealth]_vars

\* Several sessions and requests side by side, posting ToolEnvelopes.
NextTools ==
  \/ \E origin \in OriginHeaders : sse_stream(origin, DirectRequest)
  \/ \E s \in SessionIds : event_generator(s)
  \/ \E s \in SessionIds : event_generator_finally(s)
  \/ \E r \in ReqIds, s \in SessionIds, origin \in OriginHeaders, body \in BodyKinds :
       inbox_checks(r, s, origin, body)
  \/ \E r \in ReqIds, env \in ToolEnvelopes \cup {NoEnvelope} : inbox_dispatch(r, env)
  \/ \E r \in ReqIds : queue_put_resume(r)

SpecTools == Init /\ [][NextTools]_vars

\* Connects without an Origin header, which check_origin lets through in
\* every environment, in a process started in any environment of
\* Environments and reached through any request of SseRequests.
InitDeployed ==
  /\ SESSIONS = {}
  /\ queue = [s \in SessionIds |-> << >>]
  /\ sse = [s \in SessionIds |-> "none"]
  /\ nextSession = 0
  /\ emitted = [s \in SessionIds |-> << >>]
  /\ enqLog = [s \in SessionIds |-> << >>]
  /\ req = [r \in ReqIds |-> IdleSlot]
  /\ last = NoExchange
  /\ ACCOUNT_STATUS = [a \in AccountIds |-> InitialStatus(a)]
  /\ MOCK_PRODUCTS_status = [a \in AccountIds |-> InitialStatus(a)]
  /\ MOCK_CUSTOMERS_address = [c \in CustomerIds |-> InitialAddress(c)]
  /\ os_environ \in Environments
  /\ EXTERNAL_BASE_URL = get_external_base_url(os_environ)
  /\ upstream = {}
  /\ proxy_last = NoProxyExchange

NextConnect ==
  \/ \E request \in SseRequests : sse_stream(NoOrigin, request)
  \/ \E s \in SessionIds : event_generator(s)
  \/ \E s \in SessionIds : event_generator_finally(s)

SpecBaseUrl == InitDeployed /\ [][NextConnect]_vars

\* One request on one connection at a time, posting every envelope of
\* Envelopes: each method with each id and each shape of params.
DispatchReqIds == { r \in ReqIds : r = 1 }

NextDispatch ==
  \/ \E origin \in OriginHeaders : sse_stream(origin, DirectRequest)
  \/ \E s \in SessionIds : event_generator(s)
  \/ \E s \in SessionIds : event_generator_finally(s)
  \/ \E r \in DispatchReqIds, s \in SessionIds, origin \in OriginHeaders, body \in BodyKinds :
       inbox_checks(r, s, origin, body)
  \/ \E r \in DispatchReqIds, env \in Envelopes \cup {NoEnvelope} : inbox_dispatch(r, env)

SpecDispatch == Init /\ [][NextDispatch]_vars

\* ------------------------------------------------------------ cors_proxy
\* s.startswith(p)
StartsWith(s, p) == Len(s) >= Len(p) /\ SubSeq(s, 1, Len(p)) = p

\* p in s
Contains(s, p) ==
  \E i \in 1..(Len(s) - Len(p) + 1) : SubSeq(s, i, i + Len(p) - 1) = p

\* s.split('?')[0]
BeforeQuery(s) ==
  LET marks == { i \in 1..Len(s) : SubSeq(s, i, i) = "?" }
  IN  IF marks = {} THEN s
      ELSE SubSeq(s, 1, (CHOOSE i \in marks : \A j \in marks : i <= j) - 1)

\* The escapes that occur in ProxyPaths and what they decode to.
Escapes == [e \in {"%2e", "%2E", "%2f", "%2F"} |->
              IF e \in {"%2e", "%2E"} THEN "." ELSE "/"]

\* urllib.parse.unquote(s)
RECURSIVE unquote(_)
unquote(s) ==
  IF s = "" THEN ""
  ELSE IF Len(s) >= 3 /\ SubSeq(s, 1, 3) \in DOMAIN Escapes
  THEN Escapes[SubSeq(s, 1, 3)] \o unquote(SubSeq(s, 4, Len(s)))
  ELSE SubSeq(s, 1, 1) \o unquote(SubSeq(s, 2, Len(s)))

\* The request targets sent to the proxy.
ProxyPaths ==
  { "/", "/camunda-process-viewer.html", "/style.css?next=/v2/",
    "/v2/topology",
    "/v2", "/api/v2/topology", "/../secret", "/%2e%2e/secret", "//etc/passwd",
    "/?v=2" }

\* Content-Length headers of a request: none, a number, not a number.
ContentLengths == { Absent, "12", "abc" }

\* What urlopen does: a response, an HTTPError, a URLError, another
\* exception.
UpstreamOutcomes == { "200", "HTTPError 404", "URLError", "TimeoutError" }

\* What the file system holds at a path when the handler looks.
FileKinds == { "missing", "file", "unreadable" }

\* A test that takes /v2/ anywhere in the path.
IsApiPath_anywhere(path) == Contains(path, "/v2/")

\* self.path.startswith('/v2/')
IsApiPath(path) == StartsWith(path, "/v2/")

ProxyExchange(method, path, status, handler, contacted) ==
  [method |-> method, path |-> path, status |-> status, handler |-> handler,
   contacted |-> contacted]

\* _serve_static_file with the file system holding `kind` at the path.
serve_static_file(path, kind) ==
  LET rewritten == IF path = "/" THEN "/camunda-process-viewer.html" ELSE path
      decoded == unquote(BeforeQuery(rewritten))
      file_path == IF StartsWith(decoded, "/")
                   THEN SubSeq(decoded, 2, Len(decoded)) ELSE decoded
      status == IF Contains(file_path, "..") \/ StartsWith(file_path, "/") THEN 403
                ELSE IF kind = "missing" \/ file_path = "" THEN 404
                ELSE IF kind = "file" THEN 200
                ELSE 500
  IN  /\ proxy_last' = ProxyExchange("GET", path, status, "static", FALSE)
      /\ UNCHANGED upstream

\* _proxy_request(method): the Content-Length is parsed for POST and PUT
\* before urlopen is called.
proxy_request(method, path, content_length, outcome) ==
  IF method \in {"POST", "PUT"} /\ content_length = "abc"
  THEN /\ proxy_last' = ProxyExchange(method, path, 500, "proxy", FALSE)
       /\ UNCHANGED upstream
  ELSE /\ upstream' = upstream \cup {[method |-> method, path |-> path]}
       /\ proxy_last' =
            ProxyExchange(method, path,
                          CASE outcome = "200" -> 200
                            [] outcome = "HTTPError 404" -> 404
                            [] outcome = "URLError" -> 503
                            [] OTHER -> 500,
                          "proxy", TRUE)

\* send_response(405) of do_POST, do_PUT and do_DELETE.
method_not_allowed(method, path) ==
  /\ proxy_last' = ProxyExchange(method, path, 405, "", FALSE)
  /\ UNCHANGED upstream

server == << SESSIONS, queue, sse, nextSession, emitted, enqLog, req, last,
             dataset, process >>

do_OPTIONS(path) ==
  /\ proxy_last' = ProxyExchange("OPTIONS", path, 200, "", FALSE)
  /\ UNCHANGED << upstream, server >>

do_GET(path, kind, outcome) ==
  /\ IF IsApiPath(path)
     THEN proxy_request("GET", path, Absent, outcome)
     ELSE serve_static_file(path, kind)
  /\ UNCHANGED server

do_POST(path, content_length, outcome) ==
  /\ IF IsApiPath(path)
     THEN proxy_request("POST", path, content_length, outcome)
     ELSE method_not_allowed("POST", path)
  /\ UNCHANGED server

do_PUT(path, content_length, outcome) ==
  /\ IF IsApiPath(path)
     THEN proxy_request("PUT", path, content_length, outcome)
     ELSE method_not_allowed("PUT", path)
  /\ UNCHANGED server

do_DELETE(path, outcome) ==
  /\ IF IsApiPath(path)
     THEN proxy_request("DELETE", path, Absent, outcome)
     ELSE method_not_allowed("DELETE", path)
  /\ UNCHANGED server

NextProxy ==
  \/ \E path \in ProxyPaths : do_OPTIONS(path)
  \/ \E path \in ProxyPaths, kind \in FileKinds, outcome \in UpstreamOutcomes :
       do_GET(path, kind, outcome)
  \/ \E path \in ProxyPaths, cl \in ContentLengths, outcome \in UpstreamOutcomes :
       do_POST(path, cl, outcome)
  \/ \E path \in ProxyPaths, cl \in ContentLengths, outcome \in UpstreamOutcomes :
       do_PUT(path, cl, outcome)
  \/ \E path \in ProxyPaths, outcome \in UpstreamOutcomes : do_DELETE(path, outcome)

SpecProxy == Init /\ [][NextProxy]_vars

\* ---------------------------------------------------------------- claims
\* The exchange that finishes in this step, if one does.
Finishes(kind) == last' # last /\ last'.kind = kind

\* The items request r has put on the queue of session s.
PutBy(r, s) == { k \in DOMAIN enqLog[s] : enqLog[s][k].src = r }

RECURSIVE IsSubsequence(_, _)
IsSubsequence(a, b) ==
  IF a = << >> THEN TRUE
  ELSE IF b = << >> THEN FALSE
  ELSE IF Head(a) = Head(b) THEN IsSubsequence(Tail(a), Tail(b))
  ELSE IsSubsequence(a, Tail(b))

\* C1: when an inbox request with an id gets a response from the dispatcher
\* while the queue of its registered session is full, the step removes the
\* oldest queued item and appends the response: the queue is full again and
\* ends with the response.
C1_FullQueueEvictsOldest ==
  [][ \A r \in ReqIds :
        LET s == req[r].session
            item == IF req'[r].pc = "putting" THEN req'[r].item
                    ELSE MessageItem(last'.response, r)
            answered ==
              \/ req'[r].pc = "putting"
              \/ /\ req'[r].pc = "done" /\ last'.r = r /\ last'.dispatched
                 /\ last'.response.kind \in {"result", "error"}
                 /\ last'.env.id \notin {Absent, "null"}
        IN  ( /\ req[r].pc = "reading" /\ req[r].kind = "inbox"
              /\ s \in SESSIONS /\ Full(queue[s]) /\ answered )
            => /\ queue'[s] = Append(Tail(queue[s]), item)
               /\ Len(queue'[s]) = SESSION_QUEUE_MAX
               /\ queue'[s][Len(queue'[s])] = item ]_vars

\* C2: no inbox POST is ever suspended at its enqueue step, where only the
\* session's SSE consumer taking an item could let it go on.
C2_PostNeverWaits ==
  \A r \in ReqIds : req[r].kind = "inbox" => req[r].pc # "putting"

\* C3: a finished inbox POST was answered 204, or 403 for a disallowed
\* origin, 404 for an unknown session, or 400 for a body that does not
\* parse or is not an object.
C3_Always204OrStructural ==
  last.kind = "inbox" =>
    \/ last.status = 204
    \/ last.status = 403 /\ last.origin.header # Absent
                         /\ last.origin.host \notin ALLOWED_ORIGINS
    \/ last.status = 404 /\ ~last.known
    \/ last.status = 400 /\ last.body \in {"unparsable", "nonobject"}

\* C4: on every stream the first event emitted is the endpoint event with
\* the session's inbox URL, and every later event is a message event; the
\* endpoint item is the first item put on the session's queue and the only
\* endpoint item put on it.
C4_EndpointFirstOnce ==
  \A s \in SessionIds :
    /\ sse[s] # "none" =>
         /\ enqLog[s] # << >>
         /\ enqLog[s][1].event = "endpoint"
         /\ \A k \in DOMAIN enqLog[s] : k > 1 => enqLog[s][k].event = "message"
    /\ emitted[s] # << >> =>
         /\ emitted[s][1].event = "endpoint"
         /\ emitted[s][1].url.path = "inbox"
         /\ emitted[s][1].url.session = s
    /\ \A k \in DOMAIN emitted[s] : k > 1 => emitted[s][k].event = "message"

C4_Witness ==
  \E s \in SessionIds :
    /\ Len(emitted[s]) = 3
    /\ \E k \in DOMAIN emitted[s] : emitted[s][k].payload.kind = "notification"
    /\ \E k \in DOMAIN emitted[s] : emitted[s][k].payload.kind = "result"

\* C5: the events emitted on a session's stream are an order-preserving
\* subsequence of the items put on its queue, none is emitted twice, and
\* while the session is registered every item that was put and not emitted
\* is still queued.
C5_FifoDelivery ==
  \A s \in SessionIds :
    /\ IsSubsequence(emitted[s], enqLog[s])
    /\ \A j, k \in DOMAIN emitted[s] : j # k => emitted[s][j] # emitted[s][k]
    /\ s \in SESSIONS => enqLog[s] = emitted[s] \o queue[s]

C5_Witness ==
  \E s \in SessionIds :
    /\ Len(emitted[s]) = 3
    /\ last.stage = "resume" /\ last.session = s

\* A tools/call with an id and a registered tool name.
IsToolCall(env) ==
  /\ env.method = "tools/call"
  /\ env.id \notin {Absent, "null"}
  /\ env.params.name \in ToolNames

\* Request r, a tools/call with id i on session s, has been dispatched.
Asked(r, s, i) ==
  \/ /\ req[r].pc = "putting" /\ req[r].kind = "inbox" /\ req[r].session = s
     /\ req[r].env.id = i /\ IsToolCall(req[r].env)
  \/ /\ last.kind = "inbox" /\ last.r = r /\ last.session = s
     /\ last.stage \in {"dispatch", "resume"} /\ last.body = "object"
     /\ last.env.id = i /\ IsToolCall(last.env)

\* A JSON-RPC response with id i to request r was emitted on the stream of s.
Answered(r, s, i) ==
  \E k \in DOMAIN emitted[s] :
    /\ emitted[s][k].event = "message"
    /\ emitted[s][k].src = r
    /\ emitted[s][k].payload.kind \in {"result", "error"}
    /\ emitted[s][k].payload.id = i

\* C6: a request received for a session is dispatched, and once a
\* tools/call with an id and a registered tool name is dispatched, a
\* response with that id is eventually emitted on the session's stream,
\* unless the stream ends.
C6_ToolCallEventuallyAnswered ==
  /\ \A r \in ReqIds : (req[r].pc = "reading") ~> (req[r].pc # "reading")
  /\ \A r \in ReqIds, s \in SessionIds, i \in IdValues \ {Absent, "null"} :
       Asked(r, s, i) ~> (Answered(r, s, i) \/ sse[s] # "open")

C6_Witness ==
  \E s \in SessionIds, k \in 1..(MaxRequests + 1) :
    /\ k \in DOMAIN emitted[s]
    /\ emitted[s][k].payload.result.what = "tool"
    /\ emitted[s][k].payload.id = "0"
    /\ sse[s] = "open"

\* C7: a dispatched envelope with an id (one that is not null) and a method
\* other than notifications/initialized has put exactly one message item on its
\* session's queue, whose id is the envelope's id.
C7_OneResponseSameId ==
  ( /\ last.kind = "inbox" /\ last.stage \in {"dispatch", "resume"}
    /\ last.body = "object"
    /\ last.env.id \notin {Absent, "null"}
    /\ last.env.method # "notifications/initialized" )
  => /\ Cardinality(PutBy(last.r, last.session)) = 1
     /\ \A k \in PutBy(last.r, last.session) :
          /\ enqLog[last.session][k].event = "message"
          /\ enqLog[last.session][k].payload.id = last.env.id

\* C8: an envelope without an id is answered 204 in the step that
\* dispatches it, and that step puts nothing on any queue; no such request
\* ever waits to put.
C8_NotificationEnqueuesNothing ==
  [][ /\ ( /\ Finishes("inbox") /\ last'.stage \in {"dispatch", "resume"}
           /\ last'.body = "object" /\ last'.env.id = Absent )
         => /\ last'.status = 204
            /\ last'.dispatched
            /\ enqLog' = enqLog
            /\ queue' = queue
      /\ \A r \in ReqIds :
           req'[r].pc = "putting" /\ req'[r].kind = "inbox"
             => req'[r].env.id # Absent ]_vars

C8_Witness ==
  /\ last.kind = "inbox" /\ last.stage = "dispatch" /\ last.body = "object"
  /\ last.env.id = Absent
  /\ last.response.kind = "error"
  /\ last.status = 204
  /\ \E s \in SESSIONS : queue[s] # << >>

\* C9 as stated: a POST whose session id is not registered is answered
\* 404, without a call of the dispatcher and without a change to the
\* dataset or to any queue.
C9_UnknownSessionAlways404 ==
  [][ ( Finishes("inbox") /\ ~last'.known )
      => /\ last'.status = 404
         /\ ~last'.dispatched
         /\ UNCHANGED << queue, enqLog, dataset >> ]_vars

\* C9 amended: a POST with no Origin header or an allowed one whose
\* session id is not registered is answered 404, without a call of the
\* dispatcher and without a change to the dataset or to any queue.
C9_UnknownSession404 ==
  [][ ( /\ Finishes("inbox") /\ ~last'.known
        /\ (last'.origin.header = Absent \/ last'.origin.host \in ALLOWED_ORIGINS) )
      => /\ last'.status = 404
         /\ ~last'.dispatched
         /\ UNCHANGED << queue, enqLog, dataset >> ]_vars

C9_Witness ==
  /\ last.kind = "inbox" /\ last.status = 404 /\ ~last.known
  /\ last.origin.header # Absent
  /\ \E s \in SESSIONS : Len(queue[s]) > 1
  /\ ACCOUNT_STATUS["CHK001"] = "frozen"

\* The JSON-RPC error code the claim gives for a malformed body.
MalformedCode(body) == IF body = "unparsable" THEN -32700 ELSE -32600

\* C10 as stated: a POST to a registered session whose body does not parse
\* is answered 400 with code -32700, one whose body is not an object 400
\* with code -32600, without a call of the dispatcher and without an item
\* put on a queue.
C10_MalformedBodyAlways400 ==
  [][ ( /\ Finishes("inbox") /\ last'.known
        /\ last'.body \in {"unparsable", "nonobject"} )
      => /\ last'.status = 400
         /\ last'.code = MalformedCode(last'.body)
         /\ ~last'.dispatched
         /\ UNCHANGED << queue, enqLog >> ]_vars

\* C10 amended: a POST with no Origin header or an allowed one to a
\* registered session whose body does not parse is answered 400 with code
\* -32700, one whose body is not an object 400 with code -32600, without a
\* call of the dispatcher and without an item put on a queue.
C10_MalformedBody400 ==
  [][ ( /\ Finishes("inbox") /\ last'.known
        /\ (last'.origin.header = Absent \/ last'.origin.host \in ALLOWED_ORIGINS)
        /\ last'.body \in {"unparsable", "nonobject"} )
      => /\ last'.status = 400
         /\ last'.code = MalformedCode(last'.body)
         /\ ~last'.dispatched
         /\ UNCHANGED << queue, enqLog >> ]_vars

C10_Witness ==
  /\ last.kind = "inbox" /\ last.known /\ last.body = "nonobject"
  /\ last.status = 400 /\ last.code = -32600
  /\ \E s \in SessionIds : sse[s] = "closed" /\ s = last.session

\* The Origin header of a finished exchange was sent and is not allowed.
Disallowed(origin) ==
  origin.header # Absent /\ origin.host \notin ALLOWED_ORIGINS

TornDown ==
  /\ \A s \in SessionIds : sse[s] = "closed" => s \notin SESSIONS
  /\ \A s \in SessionIds :
       s \notin SESSIONS =>
         /\ ~SessionsPop(SESSIONS, s).raised
         /\ SessionsPop(SESSIONS, s).registry = SESSIONS

\* What a closed stream's queue still holds is never emitted, and the
\* session does not come back.
Discarded ==
  \A s \in SessionIds :
    sse[s] = "closed" =>
      /\ emitted'[s] = emitted[s]
      /\ sse'[s] = "closed"
      /\ s \notin SESSIONS'

\* C12 as stated: once a session's stream has ended the session is out of
\* the registry and its queued items are never emitted, every inbox POST
\* and every notify-tools-refresh that starts afterwards for its id (a
\* notify resumed from a put started before the end is not one) is
\* answered 404, and popping an absent id raises nothing and changes
\* nothing.
C12_AfterCloseAlways404 ==
  [][ /\ TornDown /\ TornDown' /\ Discarded
      /\ ( /\ Finishes("inbox") /\ ~last'.known
            /\ sse[last'.session] = "closed" ) => last'.status = 404
      /\ ( /\ Finishes("notify") /\ last'.stage # "resume"
            /\ sse[last'.session] = "closed" ) => last'.status = 404 ]_vars

\* C12 amended: as above, for every inbox POST with no Origin header or an
\* allowed one and every notify-tools-refresh that starts afterwards.
C12_AfterClose404 ==
  [][ /\ TornDown /\ TornDown' /\ Discarded
      /\ ( /\ Finishes("inbox") /\ ~last'.known
            /\ ~Disallowed(last'.origin)
            /\ sse[last'.session] = "closed" )
            => last'.status = 404 /\ ~last'.dispatched
      /\ ( /\ Finishes("notify") /\ last'.stage # "resume"
            /\ sse[last'.session] = "closed" ) => last'.status = 404 ]_vars

\* A stream that ended with an item still queued, then a notify for it.
C12_Witness ==
  \E s \in SessionIds :
    /\ sse[s] = "closed" /\ s \notin SESSIONS
    /\ queue[s] # << >>
    /\ last.kind = "notify" /\ last.session = s /\ last.status = 404

\* q2 is q after at most one put or one get.
SameQueue(q, q2) ==
  \/ q2 = q
  \/ q # << >> /\ q2 = Tail(q)
  \/ Len(q2) = Len(q) + 1 /\ SubSeq(q2, 1, Len(q)) = q

\* C13: a registered session has its stream open, and a step removes it
\* from the registry only by ending its own stream; every other step
\* (inbox POSTs, notify-tools-refresh, healthz, the connect and the end of
\* other sessions) leaves it registered with the same queue, to which items
\* are only appended and from which only the head is taken.
C13_SessionStaysUntilOwnDrop ==
  [][ \A s \in SessionIds :
        /\ s \in SESSIONS => sse[s] = "open"
        /\ (s \in SESSIONS /\ s \notin SESSIONS')
              => sse[s] = "open" /\ sse'[s] = "closed"
        /\ (s \in SESSIONS /\ sse'[s] = "open")
              => /\ s \in SESSIONS'
                 /\ SameQueue(queue[s], queue'[s])
                 /\ SubSeq(enqLog'[s], 1, Len(enqLog[s])) = enqLog[s] ]_vars

\* One session's stream has ended, the other session has been posted to and
\* notified and is still registered when /healthz is polled.
C13_Witness ==
  \E s, o \in SessionIds :
    /\ s # o /\ sse[o] = "closed" /\ s \in SESSIONS
    /\ \E k \in DOMAIN enqLog[s] : enqLog[s][k].payload.kind = "notification"
    /\ \E k \in DOMAIN enqLog[s] : enqLog[s][k].payload.kind = "result"
    /\ last.kind = "healthz" /\ last.sessions = 1

\* C14: the queue of every session, registered or not, never holds more
\* than SESSION_QUEUE_MAX items.
C14_QueueWithinCapacity ==
  \A s \in SessionIds : Len(queue[s]) <= SESSION_QUEUE_MAX

\* A queue at capacity, filled by a notify, while an inbox POST waits to
\* put on it.
C14_Witness ==
  \E s \in SESSIONS, r \in ReqIds :
    /\ Len(queue[s]) = SESSION_QUEUE_MAX
    /\ queue[s][Len(queue[s])].payload.kind = "notification"
    /\ req[r].pc = "putting" /\ req[r].kind = "inbox" /\ req[r].session = s

DispatchRaises(env) ==
  \/ /\ env.method \in {"initialize", "tools/list", "tools/call"}
     /\ env.params.present /\ ~env.params.obj
  \/ env.method = "tools/call" /\ env.params.name \in UnhashableNames

\* C16: whatever the method, the params and the id, handle_method returns
\* a result response, an error response or none, and never an exception;
\* a response carries the id the inbox handed over; when the dispatch
\* raises outside a tool the response is the error -32603; and the
\* dispatching step ends no stream and removes no session.
C16_DispatcherNeverRaises ==
  [][ ( Finishes("inbox") /\ last'.dispatched ) =>
        LET e == last'
            rsp == e.response
        IN
        /\ rsp.kind \in {"result", "error", "none"}
        /\ rsp.kind # "none" =>
              rsp.id = (IF e.env.id = Absent THEN None ELSE e.env.id)
        /\ DispatchRaises(e.env) => rsp.kind = "error" /\ rsp.code = -32603
        /\ rsp.code = -32603 => DispatchRaises(e.env)
        /\ sse' = sse /\ SESSIONS' = SESSIONS ]_vars

\* A tools/call with an id whose params is not an object was answered with
\* the error on the stream's queue.
C16_Witness ==
  /\ last.kind = "inbox" /\ last.dispatched /\ last.status = 204
  /\ last.env.method = "tools/call" /\ last.env.id = "0"
  /\ last.env.params.present /\ ~last.env.params.obj
  /\ last.response.code = -32603
  /\ \E s \in SESSIONS : \E k \in DOMAIN queue[s] :
        queue[s][k].payload.code = -32603 /\ queue[s][k].payload.id = "0"

\* The methods handle_method knows.
KnownMethods ==
  { "initialize", "notifications/initialized", "ping", "tools/list", "tools/call" }

\* C17: for an envelope whose method is none of the known ones the
\* dispatcher returns the error -32601 "Method not found" with the method
\* as its data and the envelope's id as its id; the step leaves the dataset,
\* the registry and the streams as they were, and the only thing it may put
\* on a queue is that error, for a request with an id on its own session.
C17_UnknownMethod32601 ==
  [][ ( /\ Finishes("inbox") /\ last'.dispatched
        /\ last'.env.method \notin KnownMethods ) =>
        LET e == last'
            rsp == e.response
            s == e.session
        IN
        /\ rsp.kind = "error" /\ rsp.code = -32601
        /\ rsp.result.what = "Method not found"
        /\ rsp.result.text = e.env.method
        /\ rsp.id = (IF e.env.id = Absent THEN None ELSE e.env.id)
        /\ UNCHANGED << dataset, SESSIONS, sse, emitted >>
        /\ \A o \in SessionIds : o # s => queue'[o] = queue[o]
        /\ \/ queue'[s] = queue[s]
           \/ /\ e.env.id \notin {Absent, "null"}
              /\ Len(queue'[s]) = Len(queue[s]) + 1
              /\ SubSeq(queue'[s], 1, Len(queue[s])) = queue[s]
              /\ queue'[s][Len(queue'[s])].payload = rsp ]_vars

\* The error for resources/list is queued with the request's id.
C17_Witness ==
  /\ last.kind = "inbox" /\ last.dispatched /\ last.status = 204
  /\ last.env.method = "resources/list" /\ last.env.id = "\"\""
  /\ \E k \in DOMAIN queue[last.session] :
        /\ queue[last.session][k].payload.code = -32601
        /\ queue[last.session][k].payload.id = "\"\""
        /\ queue[last.session][k].payload.result.text = "resources/list"

\* C18 as stated: for every dispatched initialize, whatever its params, the
\* dispatcher returns a result whose protocolVersion is the one in params,
\* or "2025-06-18" when params has none.
C18_InitializeAlwaysResult ==
  ( /\ last.kind = "inbox" /\ last.dispatched
    /\ last.env.method = "initialize" )
  => /\ last.response.kind = "result"
     /\ last.response.result.what = "initialize"
     /\ last.response.result.text =
          (IF last.env.params.protocolVersion = Absent
           THEN "2025-06-18" ELSE last.env.params.protocolVersion)

\* C18 amended: for every dispatched initialize whose params is absent or
\* an object, the dispatcher returns a result with the envelope's id whose
\* protocolVersion is the one in params when that is a non-empty value, and
\* "2025-06-18" when params has none or an empty one; when params is
\* present and not an object it returns the error -32603.
C18_InitializeResult ==
  ( /\ last.kind = "inbox" /\ last.dispatched
    /\ last.env.method = "initialize" )
  => LET p == last.env.params
         rsp == last.response
     IN  /\ rsp.id = (IF last.env.id = Absent THEN None ELSE last.env.id)
         /\ (~p.present \/ p.obj) =>
               /\ rsp.kind = "result"
               /\ rsp.result.what = "initialize"
               /\ rsp.result.text =
                    (IF p.protocolVersion \in {Absent, ""}
                     THEN "2025-06-18" ELSE p.protocolVersion)
         /\ (p.present /\ ~p.obj) =>
               rsp.kind = "error" /\ rsp.code = -32603

\* An initialize with an id and a protocolVersion was answered on the queue
\* with that version.
C18_Witness ==
  /\ last.kind = "inbox" /\ last.dispatched /\ last.status = 204
  /\ last.env.method = "initialize" /\ last.env.id = "0"
  /\ last.env.params.protocolVersion = "2024-11-05"
  /\ \E k \in DOMAIN queue[last.session] :
        /\ queue[last.session][k].payload.kind = "result"
        /\ queue[last.session][k].payload.result.text = "2024-11-05"

\* C19: a dispatched envelope with method notifications/initialized, with
\* or without an id and whatever its params, is answered 204 in the step
\* that dispatches it; the dispatcher returns none and the step puts
\* nothing on any queue; no such request ever waits to put.
C19_InitializedNeverAnswered ==
  [][ /\ ( /\ Finishes("inbox") /\ last'.dispatched
           /\ last'.env.method = "notifications/initialized" )
         => /\ last'.status = 204
            /\ last'.stage = "dispatch"
            /\ last'.response.kind = "none"
            /\ queue' = queue
            /\ enqLog' = enqLog
      /\ \A r \in ReqIds :
           req'[r].pc = "putting" /\ req'[r].kind = "inbox"
             => req'[r].env.method # "notifications/initialized"
      /\ \A s \in SessionIds : \A k \in DOMAIN enqLog'[s] :
           enqLog'[s][k].payload.kind # "none" \/ enqLog'[s][k].event = "endpoint" ]_vars

\* notifications/initialized with an id and params that is not an object,
\* answered 204 with only the endpoint item on the queue.
C19_Witness ==
  /\ last.kind = "inbox" /\ last.dispatched /\ last.status = 204
  /\ last.env.method = "notifications/initialized"
  /\ last.env.id = "0" /\ last.env.params.present
  /\ last.session \in SESSIONS
  /\ Len(enqLog[last.session]) = 1

\* A dispatched tools/call whose name is not a registered tool finishes.
UnknownToolCall ==
  /\ Finishes("inbox") /\ last'.dispatched
  /\ last'.env.method = "tools/call"
  /\ last'.env.params.name \notin ToolNames

\* The text of the unknown-tool result for the name of params.
UnknownToolText(p) ==
  "Unknown tool: " \o (IF p.name = Absent THEN "None" ELSE p.name)

\* C20 as stated: a dispatched tools/call whose name is not registered,
\* a missing name included, gets a result response with isError true and
\* the text "Unknown tool: <name>", and leaves the dataset as it was.
C20_UnknownToolAlwaysResult ==
  [][ UnknownToolCall =>
        /\ last'.response.kind = "result"
        /\ last'.response.result.isError
        /\ last'.response.result.text = UnknownToolText(last'.env.params)
        /\ UNCHANGED dataset ]_vars

\* C20 amended: when params is absent or an object and the name is
\* hashable, the response is that result; when params is not an object or
\* the name cannot be hashed, it is the error -32603; in both cases the
\* dataset is left as it was.
C20_UnknownToolResult ==
  [][ UnknownToolCall =>
        LET p == last'.env.params
            rsp == last'.response
            readable == (~p.present \/ p.obj) /\ p.name \notin UnhashableNames
        IN
        /\ readable =>
              /\ rsp.kind = "result"
              /\ rsp.result.what = "tool"
              /\ rsp.result.isError
              /\ rsp.result.text = UnknownToolText(p)
        /\ ~readable => rsp.kind = "error" /\ rsp.code = -32603
        /\ rsp.id = (IF last'.env.id = Absent THEN None ELSE last'.env.id)
        /\ UNCHANGED dataset ]_vars

\* A tools/call without a name was answered on the queue with the tool
\* error for None.
C20_Witness ==
  /\ last.kind = "inbox" /\ last.dispatched /\ last.status = 204
  /\ last.env.method = "tools/call" /\ last.env.id = "0"
  /\ last.env.params.obj /\ last.env.params.name = Absent
  /\ \E k \in DOMAIN queue[last.session] :
        /\ queue[last.session][k].payload.kind = "result"
        /\ queue[last.session][k].payload.result.isError
        /\ queue[last.session][k].payload.result.text = "Unknown tool: None"

\* Request r is dispatched in this step: handle_method runs on its envelope.
DispatchStep(r) ==
  /\ req[r].pc = "reading" /\ req[r].body = "object"
  /\ req'[r].pc # "reading"

\* The envelope and the response of the request dispatched in this step.
DispatchedEnv(r) == IF req'[r].pc = "putting" THEN req'[r].env ELSE last'.env

DispatchedResponse(r) ==
  IF req'[r].pc = "putting" THEN req'[r].item.payload ELSE last'.response

\* A tools/call that names a registered tool.
KnownToolCall(env) ==
  env.method = "tools/call" /\ env.params.obj /\ env.params.name \in ToolNames

\* arguments on which the tool raises.
FaultyArguments(a) == a.present /\ ~a.obj

\* C21: when a registered tool raises (its arguments are not an object) the
\* dispatcher returns a result with the envelope's id whose isError is true,
\* not an error response, and the step changes neither the dataset nor the
\* registry, the streams or the other requests; whatever ran before, a
\* tools/call on a registered tool with proper arguments gets a result
\* whose isError is false.
C21_ToolFaultIsolated ==
  [][ \A r \in ReqIds :
        ( DispatchStep(r) /\ KnownToolCall(DispatchedEnv(r)) ) =>
          LET env == DispatchedEnv(r)
              rsp == DispatchedResponse(r)
          IN
          /\ rsp.kind = "result"
          /\ rsp.id = (IF env.id = Absent THEN None ELSE env.id)
          /\ FaultyArguments(env.params.arguments) =>
                /\ rsp.result.isError
                /\ rsp.result.text = "Tool execution failed"
                /\ UNCHANGED dataset
          /\ ~FaultyArguments(env.params.arguments) => ~rsp.result.isError
          /\ UNCHANGED << SESSIONS, sse, emitted >>
          /\ \A o \in ReqIds : o # r => req'[o] = req[o] ]_vars

\* After the tool of the first request raised and its error result was
\* queued on one session, the second request froze an account through the
\* other session.
C21_Witness ==
  \E s \in SessionIds :
    /\ \E k \in DOMAIN enqLog[s] :
         /\ enqLog[s][k].src = 1
         /\ enqLog[s][k].payload.result.text = "Tool execution failed"
    /\ last.kind = "inbox" /\ last.r = 2 /\ last.session # s
    /\ last.status = 204 /\ last.response.result.text = "freeze"
    /\ ACCOUNT_STATUS["CHK001"] = "frozen"

\* The key a tool looks up: the argument, or "" when it is not given.
Given(v) == IF v = Absent THEN "" ELSE v

\* A tools/call on a registered tool, with arguments the tool can read,
\* whose business rule fails: an unknown account, an unknown customer, an
\* account type without banking details.
BusinessRuleFails(env) ==
  /\ KnownToolCall(env) /\ ~FaultyArguments(env.params.arguments)
  /\ LET n == env.params.name
         a == env.params.arguments
     IN  \/ /\ n \in {"freeze_account", "unfreeze_account"}
            /\ Given(a.account_id) \notin AccountIds
         \/ n = "update_address" /\ Given(a.customer_id) \notin CustomerIds
         \/ /\ n = "get_banking_details"
            /\ \/ Given(a.account_id) \notin AccountIds
               \/ Given(a.account_id) \in
                    {"CC001", "CC003", "CC042", "LON001", "MTG001", "MTG042"}

\* C22: a tools/call on a registered tool whose business rule fails gets a
\* result with the envelope's id whose isError is false and whose payload
\* has success false, not an error response, and the step leaves the
\* account statuses, the product statuses and the customer addresses as
\* they were.
C22_BusinessFailureIsResult ==
  [][ \A r \in ReqIds :
        ( DispatchStep(r) /\ BusinessRuleFails(DispatchedEnv(r)) ) =>
          LET env == DispatchedEnv(r)
              rsp == DispatchedResponse(r)
          IN
          /\ rsp.kind = "result"
          /\ rsp.id = (IF env.id = Absent THEN None ELSE env.id)
          /\ rsp.result.what = "tool"
          /\ ~rsp.result.isError
          /\ ~rsp.result.success
          /\ rsp.result.text # ""
          /\ UNCHANGED dataset ]_vars

\* get_banking_details on a credit card, answered on the queue with
\* success false.
C22_Witness ==
  /\ last.kind = "inbox" /\ last.dispatched /\ last.status = 204
  /\ last.env.params.name = "get_banking_details"
  /\ last.env.params.arguments.account_id = "CC001"
  /\ last.env.id = "0"
  /\ \E k \in DOMAIN queue[last.session] :
        /\ queue[last.session][k].payload.kind = "result"
        /\ ~queue[last.session][k].payload.result.success
        /\ ~queue[last.session][k].payload.result.isError
        /\ queue[last.session][k].payload.result.text =
             "Account type does not support international transfers"

\* The tools/list responses produced so far: those put on a queue, those a
\* suspended request holds, and the one of the last exchange.
CatalogResponses ==
  LET all == UNION { { enqLog[s][k].payload : k \in DOMAIN enqLog[s] } : s \in SessionIds }
               \cup { req[r].item.payload : r \in ReqIds }
               \cup { last.response }
  IN  { rsp \in all : rsp.result.what = "tools" }

\* C23: every tools/list whose params is absent or an object, whatever its
\* cursor and whatever tools/call ran before it, returns a catalog that
\* holds every registered tool once, in the order of the registry, so any
\* two catalogs returned are the same.
C23_CatalogStable ==
  /\ ( /\ last.kind = "inbox" /\ last.dispatched
       /\ last.env.method = "tools/list"
       /\ (~last.env.params.present \/ last.env.params.obj) )
     => last.response.kind = "result" /\ last.response.result.what = "tools"
  /\ \A rsp \in CatalogResponses :
       LET c == rsp.result.tools IN
       /\ Len(c) = Cardinality(ToolNames)
       /\ { c[i] : i \in DOMAIN c } = ToolNames
       /\ \A i, j \in DOMAIN c : i # j => c[i] # c[j]
       /\ c = TOOL_REGISTRY
  /\ \A a, b \in CatalogResponses : a.result.tools = b.result.tools

\* A tools/list with a cursor, answered with the nine tools after a
\* tools/call froze an account.
C23_Witness ==
  /\ last.kind = "inbox" /\ last.dispatched /\ last.r = 2
  /\ last.env.method = "tools/list" /\ last.env.params.cursor = "7"
  /\ Len(last.response.result.tools) = 9
  /\ last.response.result.tools[4] = "freeze_account"
  /\ ACCOUNT_STATUS["CHK001"] = "frozen"

\* item is a message event holding the tools/list_changed notification.
IsListChanged(item) ==
  /\ item.event = "message"
  /\ item.payload.kind = "notification"
  /\ item.payload.id = Absent
  /\ item.payload.result.what = "tools/list_changed"

\* C24: a notify-tools-refresh for a session that is not registered is
\* answered 404 and changes nothing; for a registered session it is
\* answered 200 after it has put, when the queue had room, exactly one
\* message item holding the tools/list_changed notification without an id
\* at the tail of that session's queue; the step changes no other queue,
\* and a notify that has to wait for room changes no queue while it waits.
C24_NotifyAppendsOne ==
  [][ /\ Finishes("notify") =>
          LET e == last'
              s == e.session
          IN
          /\ e.status \in {200, 404}
          /\ (e.stage = "checks") <=> (s \notin SESSIONS /\ e.r # 0 /\ req[e.r].pc = "idle")
          /\ e.stage = "checks" =>
                /\ e.status = 404
                /\ UNCHANGED << queue, enqLog, emitted, SESSIONS, sse, dataset >>
          /\ e.stage # "checks" =>
                /\ e.status = 200
                /\ Len(queue'[s]) = Len(queue[s]) + 1
                /\ SubSeq(queue'[s], 1, Len(queue[s])) = queue[s]
                /\ IsListChanged(queue'[s][Len(queue'[s])])
                /\ queue'[s][Len(queue'[s])].src = e.r
                /\ Cardinality(PutBy(e.r, s)) = 0
                /\ \A o \in SessionIds : o # s => queue'[o] = queue[o]
                /\ UNCHANGED << emitted, SESSIONS, sse, dataset >>
      /\ \A r \in ReqIds :
           ( req[r].pc = "idle" /\ req'[r].pc = "putting" /\ req'[r].kind = "notify" )
             => /\ req'[r].session \in SESSIONS
                /\ IsListChanged(req'[r].item)
                /\ UNCHANGED << queue, enqLog, emitted, SESSIONS, sse, dataset, last >> ]_vars

\* A notify for one session put its note behind the endpoint item while the
\* other session's queue holds a response.
C24_Witness ==
  \E s, o \in SESSIONS :
    /\ s # o
    /\ last.kind = "notify" /\ last.status = 200 /\ last.session = s
    /\ Len(queue[s]) = 2 /\ queue[s][2].payload.kind = "notification"
    /\ queue[s][1].event = "endpoint"
    /\ Len(queue[o]) = 2 /\ queue[o][2].payload.kind = "result"

\* The sessions whose stream was accepted and has not ended.
OpenStreams == { s \in SessionIds : sse[s] = "open" }

\* C25: the registry holds exactly the sessions whose stream was accepted
\* and has not ended, one entry each, and /healthz reports their number,
\* which is the number of connects accepted less the number of streams
\* ended; the /healthz step changes nothing but its own answer.
C25_HealthCountsOpenStreams ==
  [][ /\ SESSIONS = OpenStreams
      /\ Cardinality(SESSIONS) =
           nextSession - Cardinality({ s \in SessionIds : sse[s] = "closed" })
      /\ Finishes("healthz") =>
           /\ last'.status = 200
           /\ last'.sessions = Cardinality(OpenStreams)
           /\ UNCHANGED << SESSIONS, queue, sse, nextSession, emitted, enqLog,
                           req, dataset >> ]_vars

\* /healthz reports one session after two connects and the end of one
\* stream, while a request is still being read.
C25_Witness ==
  /\ last.kind = "healthz" /\ last.sessions = 1
  /\ nextSession = 2
  /\ \E s \in SessionIds : sse[s] = "closed"
  /\ \E r \in ReqIds : req[r].pc = "reading"

\* C26: the endpoint item carries the inbox path of its session under the
\* base chosen by priority: EXTERNAL_BASE_URL of the environment when set,
\* else SERVICE_URL when set, else the base derived from the request.
C26_StaticThenServiceThenRequest ==
  \A s \in SessionIds :
    enqLog[s] # << >> =>
      /\ enqLog[s][1].event = "endpoint"
      /\ \E request \in SseRequests :
           enqLog[s][1].url = InboxUrl(external_base_url_staticFirst(request), s)

\* C27: a response is put only on the queue of the session its request was
\* posted to, a put changes no other session's queue, and a stream yields
\* only what was put on its own queue: no message event of one session
\* answers a request posted to another.
C27_SessionsIsolated ==
  [][ \A s \in SessionIds :
        /\ enqLog'[s] # enqLog[s] =>
             /\ Len(enqLog'[s]) = Len(enqLog[s]) + 1
             /\ SubSeq(enqLog'[s], 1, Len(enqLog[s])) = enqLog[s]
             /\ \A o \in SessionIds \ {s} :
                  enqLog'[o] = enqLog[o] /\ queue'[o] = queue[o]
             /\ LET item == enqLog'[s][Len(enqLog'[s])] IN
                  item.src # 0 =>
                    /\ req[item.src].session = s
                    /\ item.payload # NoResponse =>
                         /\ req[item.src].kind = "inbox"
                         /\ last'.r = item.src => last'.session = s
        /\ emitted'[s] # emitted[s] =>
             /\ emitted'[s] = Append(emitted[s], Head(queue[s]))
             /\ Len(emitted'[s]) <= Len(enqLog[s])
             /\ enqLog[s][Len(emitted'[s])] = Head(queue[s])
             /\ \A o \in SessionIds \ {s} : emitted'[o] = emitted[o] ]_vars

\* Both sessions are open and each stream has yielded the answer to a
\* different request.
C27_Witness ==
  /\ \A s \in SessionIds : sse[s] = "open"
  /\ \E k \in DOMAIN emitted[1], j \in DOMAIN emitted[2] :
       /\ emitted[1][k].src # 0 /\ emitted[2][j].src # 0
       /\ emitted[1][k].src # emitted[2][j].src
       /\ emitted[1][k].payload.kind = "result"
       /\ emitted[2][j].payload.kind = "result"

\* The dataset after the tool call of env has run alone on the current one.
RunAlone(env) ==
  LET n == env.params.name
      a == env.params.arguments
      changes == KnownToolCall(env) /\ a.obj
      status == IF n = "freeze_account" THEN "frozen" ELSE "active"
  IN  << IF changes /\ n \in {"freeze_account", "unfreeze_account"}
              /\ a.account_id \in AccountIds
         THEN [ACCOUNT_STATUS EXCEPT ![a.account_id] = status]
         ELSE ACCOUNT_STATUS,
         IF changes /\ n \in {"freeze_account", "unfreeze_account"}
              /\ a.account_id \in AccountIds
         THEN [MOCK_PRODUCTS_status EXCEPT ![a.account_id] = status]
         ELSE MOCK_PRODUCTS_status,
         IF changes /\ n = "update_address" /\ a.customer_id \in CustomerIds
              /\ a.new_address # Absent
         THEN [MOCK_CUSTOMERS_address EXCEPT ![a.customer_id] = a.new_address]
         ELSE MOCK_CUSTOMERS_address >>

\* C28: with requests in flight side by side, the dataset changes only in
\* the dispatch step of one request, in which no other request moves, and
\* that step leaves the dataset as its tool call run alone on the current
\* dataset leaves it: every reachable dataset is that of the dispatched
\* calls run one at a time in the order of their dispatch steps.
C28_DispatchSerial ==
  [][ /\ dataset' # dataset =>
           \E r \in ReqIds : DispatchStep(r) /\ KnownToolCall(DispatchedEnv(r))
      /\ \A r \in ReqIds :
           DispatchStep(r) =>
             /\ \A o \in ReqIds \ {r} : req'[o] = req[o]
             /\ dataset' = RunAlone(DispatchedEnv(r)) ]_vars

\* Request 1 was posted first and dispatched its freeze last, after request
\* 2 had changed an address while request 1 was waiting for its body.
C28_Witness ==
  /\ last.kind = "inbox" /\ last.r = 1 /\ last.dispatched
  /\ last.env.params.name = "freeze_account"
  /\ ACCOUNT_STATUS["CHK001"] = "frozen"
  /\ MOCK_CUSTOMERS_address["CUST001"] = "1 New St"
  /\ req[2].pc = "done"

\* C29: the dispatch of a tools/call envelope without an id leaves the
\* dataset as the same call with id 0 would leave it, answers the POST
\* with 204 and puts nothing on any queue.
C29_NotificationCallExecutes ==
  [][ \A r \in ReqIds :
        ( /\ DispatchStep(r)
          /\ DispatchedEnv(r).method = "tools/call"
          /\ DispatchedEnv(r).id = Absent ) =>
          LET env == DispatchedEnv(r)
              withId == handle_method_try(env.method, env.params, "0",
                          [acct |-> ACCOUNT_STATUS, prod |-> MOCK_PRODUCTS_status,
                           cust |-> MOCK_CUSTOMERS_address])
          IN  /\ ACCOUNT_STATUS' = withId.d.acct
              /\ MOCK_PRODUCTS_status' = withId.d.prod
              /\ MOCK_CUSTOMERS_address' = withId.d.cust
              /\ last'.r = r /\ last'.status = 204 /\ last'.dispatched
              /\ req'[r].pc = "done"
              /\ UNCHANGED << queue, enqLog >> ]_vars

\* The only request posted so far was an update_address without an id: the
\* address is changed, the POST got 204 and the queue got nothing.
C29_Witness ==
  /\ last.kind = "inbox" /\ last.r = 1 /\ last.status = 204
  /\ last.env.id = Absent /\ last.env.params.name = "update_address"
  /\ req[2].pc = "idle"
  /\ MOCK_CUSTOMERS_address["CUST001"] = "1 New St"
  /\ last.session \in SESSIONS
  /\ Len(enqLog[last.session]) = 1

\* C30: in every reachable state, whatever freeze_account and
\* unfreeze_account calls have run, the status table and the product
\* records name the same accounts and give each the same status.
C30_StatusTableMatchesProducts ==
  /\ DOMAIN ACCOUNT_STATUS = DOMAIN MOCK_PRODUCTS_status
  /\ \A a \in DOMAIN ACCOUNT_STATUS : ACCOUNT_STATUS[a] = MOCK_PRODUCTS_status[a]

\* An account was frozen by one call and a second call, the unfreeze of
\* the same account, has just succeeded.
C30_Witness ==
  /\ last.kind = "inbox" /\ last.dispatched
  /\ last.env.params.name = "unfreeze_account"
  /\ last.response.result.success /\ last.response.result.text = "unfreeze"
  /\ ACCOUNT_STATUS["CHK001"] = "active"
  /\ \A r \in ReqIds : req[r].pc = "done"
  /\ \E s \in SessionIds : \E k \in DOMAIN enqLog[s] :
       enqLog[s][k].payload.result.text = "freeze"

\* C31: whenever the dispatch of a tools/call on search_customer returns a
\* result with success true, the customer_id in it is a key of the customer
\* table and get_customer_profile on it succeeds.
C31_FoundCustomerHasProfile ==
  [][ \A r \in ReqIds :
        ( /\ DispatchStep(r)
          /\ KnownToolCall(DispatchedEnv(r))
          /\ DispatchedEnv(r).params.name = "search_customer"
          /\ DispatchedResponse(r).result.success ) =>
          LET c == DispatchedResponse(r).result.customer_id IN
          /\ c \in DOMAIN MOCK_CUSTOMERS_address
          /\ get_customer_profile(c, [acct |-> ACCOUNT_STATUS,
                                      prod |-> MOCK_PRODUCTS_status,
                                      cust |-> MOCK_CUSTOMERS_address]).out.success ]_vars

\* The proxy answers a request in this step.
ProxyAnswers == proxy_last' # proxy_last

\* C32 as stated: urlopen is called only for a path that starts with /v2/;
\* a POST, PUT or DELETE on another path gets 405 and a GET on another path
\* gets the file, 403 or 404, neither with a call of urlopen.
C32_ForwardOnlyV2_200_403_404 ==
  [][ ProxyAnswers =>
        LET x == proxy_last'
            api == Len(x.path) >= 4 /\ SubSeq(x.path, 1, 4) = "/v2/"
        IN  /\ upstream' # upstream => api
            /\ x.contacted => api
            /\ (~api /\ x.method \in {"POST", "PUT", "DELETE"}) =>
                  x.status = 405 /\ ~x.contacted /\ upstream' = upstream
            /\ (~api /\ x.method = "GET") =>
                  /\ x.handler = "static" /\ x.status \in {200, 403, 404}
                  /\ ~x.contacted /\ upstream' = upstream ]_vars

\* C32: urlopen is called only for a path that starts with /v2/, so every
\* request ever sent upstream has such a path; a POST, PUT or DELETE on
\* another path gets 405 and a GET on another path gets the file, 403, 404
\* or, when looking for or reading the file fails, 500, neither with a call
\* of urlopen.
C32_ForwardOnlyV2 ==
  [][ /\ \A u \in upstream' : Len(u.path) >= 4 /\ SubSeq(u.path, 1, 4) = "/v2/"
      /\ ProxyAnswers =>
        LET x == proxy_last'
            api == Len(x.path) >= 4 /\ SubSeq(x.path, 1, 4) = "/v2/"
        IN  /\ upstream' # upstream => api
            /\ x.contacted => api
            /\ (~api /\ x.method \in {"POST", "PUT", "DELETE"}) =>
                  x.status = 405 /\ ~x.contacted /\ upstream' = upstream
            /\ (~api /\ x.method = "GET") =>
                  /\ x.handler = "static" /\ x.status \in {200, 403, 404, 500}
                  /\ ~x.contacted /\ upstream' = upstream ]_vars

\* After a GET and a POST under /v2/ were sent upstream, a POST whose path
\* has /v2/ further in is answered 405.
C32_Witness ==
  /\ proxy_last.method = "POST" /\ proxy_last.path = "/api/v2/topology"
  /\ proxy_last.status = 405 /\ ~proxy_last.contacted
  /\ upstream = { [method |-> "GET", path |-> "/v2/topology"],
                  [method |-> "POST", path |-> "/v2/topology"] }
====
